---- MODULE Spec2Model ----
(***************************************************************************)
(* pi-schedule-prompt: the scheduling engine (CronScheduler), the job      *)
(* store (CronStorage), the schedule_prompt tool and the /schedule-prompt  *)
(* command, as one state machine.                                          *)
(*                                                                         *)
(* Strings are sequences of one-character strings; an instant is a number  *)
(* of milliseconds; an ISO timestamp is the character "T" followed by the  *)
(* decimal digits of the instant.  Absent optional fields are 0            *)
(* (intervalMs), the empty string (lastRun, nextRun) and "none"            *)
(* (lastStatus).                                                           *)
(***************************************************************************)
EXTENDS Integers, Sequences, FiniteSets, TLC

\* ------------------------------------------------------------------ bounds
\* number of job ids nanoid() hands out
MaxJobs == 2
\* number of timer objects the process can hold at once
MaxTimers == 3
\* the clock advances in steps of TickMs up to MaxTime
TickMs == 2500
MaxTime == 7500
\* number of never-stopped watchers validateCronExpression may leave behind
MaxOrphans == 1

\* ------------------------------------------------------- program constants
TooSoonMs == 5000
GuardWindow == 10
StoreVersion == 1

\* --------------------------------------------------------------- strings
Digits == {"0", "1", "2", "3", "4", "5", "6", "7", "8", "9"}
Units == {"s", "m", "h", "d"}

DigitVal(c) ==
  CASE c = "0" -> 0 [] c = "1" -> 1 [] c = "2" -> 2 [] c = "3" -> 3
    [] c = "4" -> 4 [] c = "5" -> 5 [] c = "6" -> 6 [] c = "7" -> 7
    [] c = "8" -> 8 [] OTHER -> 9

DigitChar(n) ==
  CASE n = 0 -> "0" [] n = 1 -> "1" [] n = 2 -> "2" [] n = 3 -> "3"
    [] n = 4 -> "4" [] n = 5 -> "5" [] n = 6 -> "6" [] n = 7 -> "7"
    [] n = 8 -> "8" [] OTHER -> "9"

\* \d+ : one or more decimal digits
IsDigits(s) == Len(s) >= 1 /\ \A i \in 1..Len(s) : s[i] \in Digits

RECURSIVE parseInt(_)
parseInt(s) ==
  IF Len(s) = 0 THEN 0
  ELSE 10 * parseInt(SubSeq(s, 1, Len(s) - 1)) + DigitVal(s[Len(s)])

RECURSIVE toDecimal(_)
toDecimal(n) ==
  IF n < 10 THEN <<DigitChar(n)>>
  ELSE toDecimal(n \div 10) \o <<DigitChar(n % 10)>>

\* Date.prototype.toISOString, for an instant >= 0
toISOString(t) == <<"T">> \o toDecimal(t)

\* new Date(str).getTime(); -1 stands for NaN (Invalid Date)
DateParse(s) ==
  IF Len(s) >= 2 /\ s[1] = "T" /\ IsDigits(SubSeq(s, 2, Len(s)))
  THEN parseInt(SubSeq(s, 2, Len(s)))
  ELSE -1

msMap(u) ==
  CASE u = "s" -> 1000
    [] u = "m" -> 60 * 1000
    [] u = "h" -> 60 * 60 * 1000
    [] OTHER -> 24 * 60 * 60 * 1000

\* faulty variant of parseInterval: the pattern has lost its leading ^
parseIntervalUnanchored(s) ==
  LET n == Len(s)
      starts == {i \in 1..(n - 1) : IsDigits(SubSeq(s, i, n - 1))}
      first == CHOOSE i \in starts : \A k \in starts : i <= k
  IN  IF n >= 2 /\ s[n] \in Units /\ starts # {}
      THEN parseInt(SubSeq(s, first, n - 1)) * msMap(s[n])
      ELSE -1

\* -1 stands for null
parseInterval(s) ==
  IF Len(s) >= 2 /\ IsDigits(SubSeq(s, 1, Len(s) - 1)) /\ s[Len(s)] \in Units
  THEN parseInt(SubSeq(s, 1, Len(s) - 1)) * msMap(s[Len(s)])
  ELSE -1

\* <<>> stands for null; t is Date.now()
parseRelativeTime(s, t) ==
  IF Len(s) >= 3 /\ s[1] = "+" /\ IsDigits(SubSeq(s, 2, Len(s) - 1))
     /\ s[Len(s)] \in Units
  THEN toISOString(t + parseInt(SubSeq(s, 2, Len(s) - 1)) * msMap(s[Len(s)]))
  ELSE <<>>

\* expression.trim().split(/\s+/).length
RECURSIVE FieldCountFrom(_, _, _)
FieldCountFrom(s, i, inField) ==
  IF i > Len(s) THEN 0
  ELSE IF s[i] = " " THEN FieldCountFrom(s, i + 1, FALSE)
  ELSE (IF inField THEN 0 ELSE 1) + FieldCountFrom(s, i + 1, TRUE)

FieldCount(s) == IF FieldCountFrom(s, 1, FALSE) = 0 THEN 1 ELSE FieldCountFrom(s, 1, FALSE)

\* croner: does new Cron(pattern) accept the pattern.  The patterns of the
\* model are made of "*" and digit fields; croner takes 5 or 6 such fields.
CronAccepts(s) ==
  /\ FieldCountFrom(s, 1, FALSE) \in {5, 6}
  /\ \A i \in 1..Len(s) : s[i] \in Digits \cup {"*", " "}

\* croner: the first cadence instant strictly after t ("* * * * * *" and
\* the like: every whole second)
CronNextRun(t) == (t \div 1000) * 1000 + 1000

\* faulty variant of validateCronExpression: the fields are not counted
validateCronExpressionUncounted(s) ==
  IF CronAccepts(s)
  THEN [valid |-> TRUE, fields |-> FieldCount(s), built |-> TRUE]
  ELSE [valid |-> FALSE, fields |-> FieldCount(s), built |-> FALSE]

\* [valid, fields, built]: built says that new Cron(expression, () => {})
\* was constructed, which leaves a running watcher nobody stops
validateCronExpression(s) ==
  IF FieldCount(s) # 6
  THEN [valid |-> FALSE, fields |-> FieldCount(s), built |-> FALSE]
  ELSE IF CronAccepts(s)
  THEN [valid |-> TRUE, fields |-> 6, built |-> TRUE]
  ELSE [valid |-> FALSE, fields |-> 6, built |-> FALSE]

\* ------------------------------------------------------------------ jobs
JobIds == 1..MaxJobs

\* a CronJob; the fields the engine, the store and the tool read or write
NoJob ==
  [id |-> 0, name |-> "", schedule |-> <<>>, enabled |-> FALSE,
   type |-> "none", intervalMs |-> 0, runCount |-> 0,
   lastRun |-> <<>>, lastStatus |-> "none", nextRun |-> <<>>]

\* Object.assign(job, partial) and { ...job, ...partial }
Assign(job, partial) ==
  [f \in DOMAIN job |-> IF f \in DOMAIN partial THEN partial[f] ELSE job[f]]

\* Array.prototype.findIndex on the job list (0 when nothing matches);
\* Array.prototype.filter is SelectSeq
FindIndex(s, test(_)) ==
  IF \E i \in 1..Len(s) : test(s[i])
  THEN CHOOSE i \in 1..Len(s) : test(s[i]) /\ \A k \in 1..(i - 1) : ~test(s[k])
  ELSE 0

\* ----------------------------------------------------------- CronStorage
\* the file .pi/schedule-prompts.json.  state is "missing"; "ok": the text
\* is the JSON of an object with a jobs array; "garbled": the text is not
\* JSON (a truncated write, say); "misshapen": the text is JSON of another
\* shape, here an object with a version and no jobs
NoFile == [state |-> "missing", jobs |-> <<>>, version |-> 0]

Garbled == [state |-> "garbled", jobs |-> <<>>, version |-> 0]

\* existsSync, readFileSync, JSON.parse: what parses is returned as it is
load(f) ==
  IF f.state = "ok" THEN [jobs |-> f.jobs, version |-> f.version]
  ELSE IF f.state = "misshapen" THEN [version |-> f.version]
  ELSE [jobs |-> <<>>, version |-> StoreVersion]

\* faulty variant of save: the version of the store is not written back
saveResetsVersion(store) ==
  IF "jobs" \in DOMAIN store
  THEN [state |-> "ok", jobs |-> store.jobs, version |-> StoreVersion]
  ELSE [state |-> "misshapen", jobs |-> <<>>, version |-> store.version]

\* the file after save(store) has run to its end: JSON.stringify of the value
save(store) ==
  IF "jobs" \in DOMAIN store
  THEN [state |-> "ok", jobs |-> store.jobs, version |-> store.version]
  ELSE [state |-> "misshapen", jobs |-> <<>>, version |-> store.version]

\* save step by step.  disk is the pair of the canonical file and the file
\* `${storePath}.tmp`; a write that is cut short leaves a text that is not JSON
\* faulty variant of tempPath: the text is written over the canonical file
tempPathIsStorePath == "file"

tempPath == "temp"

writeFileSync(disk, path, content, whole) ==
  [disk EXCEPT ![path] = IF whole THEN content ELSE Garbled]

renameSync(disk) == [file |-> disk.temp, temp |-> NoFile]

\* faulty variant of hasJobWithName: the name is compared with the wrong field
hasJobWithNameWrongField(f, name) ==
  \E i \in 1..Len(load(f).jobs) : load(f).jobs[i].type = name

hasJobWithName(f, name) == \E i \in 1..Len(load(f).jobs) : load(f).jobs[i].name = name

storageAddJob(f, job) ==
  save([load(f) EXCEPT !.jobs = Append(@, job)])

storageHasId(f, id) == \E i \in 1..Len(load(f).jobs) : load(f).jobs[i].id = id

\* the boolean CronStorage.removeJob returns
storageRemoved(f, id) ==
  LET store == load(f)
      keep(j) == j.id # id
  IN  Len(SelectSeq(store.jobs, keep)) < Len(store.jobs)

\* faulty variant of storageRemoveJob: the store is written even when no job
\* was removed
storageRemoveJobAlwaysSaves(f, id) ==
  LET store == load(f)
      keep(j) == j.id # id
  IN  save([store EXCEPT !.jobs = SelectSeq(store.jobs, keep)])

storageRemoveJob(f, id) ==
  LET store == load(f)
      keep(j) == j.id # id
      rest == SelectSeq(store.jobs, keep)
  IN  IF Len(rest) < Len(store.jobs) THEN save([store EXCEPT !.jobs = rest]) ELSE f

\* faulty variant of storageUpdateJob: a job that is not found is added
storageUpdateJobUpserts(f, id, partial) ==
  LET store == load(f)
      test(j) == j.id = id
      i == FindIndex(store.jobs, test)
  IN  IF i # 0
      THEN save([store EXCEPT !.jobs[i] = Assign(@, partial)])
      ELSE save([store EXCEPT !.jobs = Append(@, Assign([NoJob EXCEPT !.id = id], partial))])

\* faulty variant of storageUpdateJob: the record is replaced by the partial
storageUpdateJobReplaces(f, id, partial) ==
  LET store == load(f)
      test(j) == j.id = id
      i == FindIndex(store.jobs, test)
  IN  IF i # 0
      THEN save([store EXCEPT !.jobs[i] = Assign([NoJob EXCEPT !.id = id], partial)])
      ELSE f

storageUpdateJob(f, id, partial) ==
  LET store == load(f)
      test(j) == j.id = id
      i == FindIndex(store.jobs, test)
  IN  IF i # 0
      THEN save([store EXCEPT !.jobs[i] = Assign(@, partial)])
      ELSE f

\* undefined is NoJob
getJob(f, id) ==
  LET store == load(f)
      test(j) == j.id = id
      i == FindIndex(store.jobs, test)
  IN  IF i # 0 THEN store.jobs[i] ELSE NoJob

getAllJobs(f) == load(f).jobs

\* ------------------------------------------------------------------ state
VARIABLES
  file,       \* content of .pi/schedule-prompts.json
  jobs,       \* CronScheduler.jobs: job id -> Cron watcher (0: no entry)
  intervals,  \* CronScheduler.intervals: job id -> timer handle (0: no entry)
  timers,     \* the timers and watchers of the process, by handle
  orphans,    \* watchers built by validateCronExpression, never stopped
  sinceSP,    \* session entries after the latest scheduled_prompt entry
  events,     \* "cron:change" events emitted and messages sent by the latest step
  g,          \* history of each job id (observation only)
  now,        \* the clock, in ms
  session,    \* "none" or "active": is an engine installed
  nextId,     \* the next id nanoid() returns
  menu,       \* position of the /schedule-prompt handler
  temp,       \* the file schedule-prompts.json.tmp, and is a save about to rename it
  probe,      \* a call of a static parser on its own: function, argument, result
  last        \* what the latest step was and how it ended (observation only)

vars == <<file, jobs, intervals, timers, orphans, sinceSP, events, g, now,
          session, nextId, menu, temp, probe, last>>

Handles == 1..MaxTimers

FreeTimer == [kind |-> "free", job |-> NoJob, due |-> 0, live |-> FALSE]

\* what happened to a job id while its job is stored: timers armed (2: two
\* or more), executions delivered and failed, schedule changed by an update,
\* switched off by disable or toggle
NoHistory == [arms |-> 0, ok |-> 0, fail |-> 0, resched |-> FALSE, off |-> FALSE]

\* the part of the state the engine and the store work on, threaded through
\* the calls of one handler; full says the process ran out of timer handles
Cur ==
  [file |-> file, jobs |-> jobs, intervals |-> intervals, timers |-> timers,
   orphans |-> orphans, sinceSP |-> sinceSP, events |-> <<>>, g |-> g,
   full |-> FALSE]

Commit(M) ==
  /\ ~M.full
  /\ file' = M.file
  /\ jobs' = M.jobs
  /\ intervals' = M.intervals
  /\ timers' = M.timers
  /\ orphans' = M.orphans
  /\ sinceSP' = M.sinceSP
  /\ events' = M.events
  /\ g' = [id \in JobIds |-> IF storageHasId(M.file, id) THEN M.g[id] ELSE NoHistory]
  /\ temp' = temp
  /\ probe' = probe

Sat2(n) == IF n >= 2 THEN 2 ELSE n

\* --------------------------------------------------------- CronScheduler
Ev(type, jobId, enabled) == [type |-> type, jobId |-> jobId, enabled |-> enabled]

\* pi.events.emit calls the listeners before it returns: seen is the
\* lastStatus a listener reads from the store as the event arrives
emitChange(M, ev) ==
  [M EXCEPT !.events = Append(@, [type |-> ev.type, jobId |-> ev.jobId,
                                  enabled |-> ev.enabled,
                                  seen |-> getJob(M.file, ev.jobId).lastStatus])]

FreeHandle(tm) ==
  IF \E h \in Handles : tm[h].kind = "free"
  THEN CHOOSE h \in Handles : tm[h].kind = "free" /\ \A k \in 1..(h - 1) : tm[k].kind # "free"
  ELSE 0

\* the job object a callback or a handler keeps: the telemetry fields of the
\* copy (lastRun, lastStatus, nextRun) are never read again and are left out
Captured(job) ==
  Assign(job, [lastRun |-> <<>>, lastStatus |-> "none", nextRun |-> <<>>])

\* setInterval / setTimeout / new Cron: a new live timer, and its handle
\* stored under the job id in the given map
armTimer(M, map, kind, job, due) ==
  LET h == FreeHandle(M.timers)
  IN  IF h = 0 THEN [M EXCEPT !.full = TRUE]
      ELSE [M EXCEPT !.timers[h] = [kind |-> kind, job |-> Captured(job),
                                    due |-> due, live |-> TRUE],
                     ![map][job.id] = h,
                     !.g[job.id].arms = Sat2(@ + 1)]

\* clearInterval / cron.stop on the handle a map holds
clearTimer(M, h) == [M EXCEPT !.timers[h] = FreeTimer]

\* faulty variant of unscheduleJob: the keys are deleted and the timers are
\* left running
unscheduleJobLeavesTimers(M, id) ==
  [M EXCEPT !.jobs[id] = 0, !.intervals[id] = 0]

unscheduleJob(M, id) ==
  LET M1 == IF M.jobs[id] # 0
            THEN [clearTimer(M, M.jobs[id]) EXCEPT !.jobs[id] = 0]
            ELSE M
  IN  IF M1.intervals[id] # 0
      THEN [clearTimer(M1, M1.intervals[id]) EXCEPT !.intervals[id] = 0]
      ELSE M1

LapsedPartial == [enabled |-> FALSE, lastStatus |-> "error"]

\* faulty variant of scheduleJob: a Once job whose instant is exactly now is
\* still armed
scheduleJobArmsAtZero(M, job, t) ==
  IF job.type = "interval" /\ job.intervalMs # 0
  THEN armTimer(M, "intervals", "interval", job, t + job.intervalMs)
  ELSE IF job.type = "once"
  THEN LET target == DateParse(job.schedule)
       IN  IF target # -1 /\ target - t >= 0
           THEN armTimer(M, "intervals", "timeout", job, target)
           ELSE emitChange(
                  [M EXCEPT !.file = storageUpdateJob(@, job.id, LapsedPartial)],
                  Ev("error", job.id, FALSE))
  ELSE IF CronAccepts(job.schedule)
  THEN armTimer(M, "jobs", "cron", job, CronNextRun(t))
  ELSE emitChange(M, Ev("error", job.id, job.enabled))

\* faulty variant of scheduleJob: a job whose watcher cannot be built is
\* switched off, as a lapsed Once job is
scheduleJobDisablesOnFailure(M, job, t) ==
  IF job.type = "interval" /\ job.intervalMs # 0
  THEN armTimer(M, "intervals", "interval", job, t + job.intervalMs)
  ELSE IF job.type = "once"
  THEN LET target == DateParse(job.schedule)
       IN  IF target # -1 /\ target - t > 0
           THEN armTimer(M, "intervals", "timeout", job, target)
           ELSE emitChange(
                  [M EXCEPT !.file = storageUpdateJob(@, job.id, LapsedPartial)],
                  Ev("error", job.id, FALSE))
  ELSE IF CronAccepts(job.schedule)
  THEN armTimer(M, "jobs", "cron", job, CronNextRun(t))
  ELSE emitChange(
         [M EXCEPT !.file = storageUpdateJob(@, job.id, LapsedPartial)],
         Ev("error", job.id, FALSE))

scheduleJob(M, job, t) ==
  IF job.type = "interval" /\ job.intervalMs # 0
  THEN armTimer(M, "intervals", "interval", job, t + job.intervalMs)
  ELSE IF job.type = "once"
  THEN LET target == DateParse(job.schedule)
       IN  IF target # -1 /\ target - t > 0
           THEN armTimer(M, "intervals", "timeout", job, target)
           ELSE emitChange(
                  [M EXCEPT !.file = storageUpdateJob(@, job.id, LapsedPartial)],
                  Ev("error", job.id, FALSE))
  ELSE IF CronAccepts(job.schedule)
  THEN armTimer(M, "jobs", "cron", job, CronNextRun(t))
  ELSE emitChange(M, Ev("error", job.id, job.enabled))

addJob(M, job, t) ==
  emitChange(IF job.enabled THEN scheduleJob(M, job, t) ELSE M,
             Ev("add", job.id, job.enabled))

removeJob(M, id) == emitChange(unscheduleJob(M, id), Ev("remove", id, FALSE))

\* faulty variant of updateJob: the old timer is not cancelled when the job is
\* switched off
updateJobKeepsTimer(M, id, updated, t) ==
  emitChange(IF updated.enabled THEN scheduleJob(unscheduleJob(M, id), updated, t) ELSE M,
             Ev("update", updated.id, updated.enabled))

\* faulty variant of updateJob: the old timer is cancelled only when the job
\* is switched off
updateJobArmsBeside(M, id, updated, t) ==
  emitChange(IF updated.enabled THEN scheduleJob(M, updated, t) ELSE unscheduleJob(M, id),
             Ev("update", updated.id, updated.enabled))

updateJob(M, id, updated, t) ==
  LET M1 == unscheduleJob(M, id)
  IN  emitChange(IF updated.enabled THEN scheduleJob(M1, updated, t) ELSE M1,
                 Ev("update", updated.id, updated.enabled))

\* faulty variant of getNextRun: a handle of the intervals map counts as a
\* watcher
getNextRunAnyTimer(M, id, t) ==
  IF M.jobs[id] # 0 \/ M.intervals[id] # 0 THEN toISOString(CronNextRun(t)) ELSE <<>>

\* <<>> is null
getNextRun(M, id, t) ==
  IF M.jobs[id] # 0 THEN toISOString(CronNextRun(t)) ELSE <<>>

\* faulty variant of startFrom: the enabled flag is not looked at
RECURSIVE startFromArmsAll(_, _, _)
startFromArmsAll(M, all, t) ==
  IF Len(all) = 0 THEN M
  ELSE startFromArmsAll(scheduleJob(M, Head(all), t), Tail(all), t)

RECURSIVE startFrom(_, _, _)
startFrom(M, all, t) ==
  IF Len(all) = 0 THEN M
  ELSE startFrom(IF Head(all).enabled THEN scheduleJob(M, Head(all), t) ELSE M,
                 Tail(all), t)

start(M, t) == startFrom(M, getAllJobs(M.file), t)

\* faulty variant of stop: the handles of the intervals map are not cleared
stopForgetsIntervals(M) ==
  [M EXCEPT !.timers = [h \in Handles |->
                          IF \E id \in JobIds : M.jobs[id] = h
                          THEN FreeTimer ELSE @[h]],
            !.jobs = [id \in JobIds |-> 0],
            !.intervals = [id \in JobIds |-> 0]]

stop(M) ==
  [M EXCEPT !.timers = [h \in Handles |->
                          IF \E id \in JobIds : M.jobs[id] = h \/ M.intervals[id] = h
                          THEN FreeTimer ELSE @[h]],
            !.jobs = [id \in JobIds |-> 0],
            !.intervals = [id \in JobIds |-> 0]]

RunningPartial == [lastStatus |-> "running"]

SuccessPartial(job, t, nextRun) ==
  [lastRun |-> toISOString(t), lastStatus |-> "success",
   runCount |-> job.runCount + 1, nextRun |-> nextRun]

ErrorPartial(t) == [lastRun |-> toISOString(t), lastStatus |-> "error"]

\* faulty variant of executeJobCatch: the failing job is unscheduled
executeJobCatchCancels(M, job, t) ==
  unscheduleJob(
    emitChange(
      [M EXCEPT !.file = storageUpdateJob(@, job.id, ErrorPartial(t)),
                !.g[job.id].fail = @ + 1],
      Ev("error", job.id, job.enabled)),
    job.id)

\* faulty variant of executeJobCatch: the failure is reported and not stored
executeJobCatchEmitsOnly(M, job, t) ==
  emitChange([M EXCEPT !.g[job.id].fail = @ + 1], Ev("error", job.id, job.enabled))

\* the catch block of executeJob
executeJobCatch(M, job, t) ==
  emitChange(
    [M EXCEPT !.file = storageUpdateJob(@, job.id, ErrorPartial(t)),
              !.g[job.id].fail = @ + 1],
    Ev("error", job.id, job.enabled))

\* the marker message: a scheduled_prompt entry of the session, whose
\* details carry the id and the name of the job
sendMessage(M, job) ==
  [M EXCEPT !.sinceSP = 0,
            !.events = Append(@, [type |-> "sendMessage", jobId |-> job.id,
                                  jobName |-> job.name])]

\* the prompt itself, as a follow-up user message
sendUserMessage(M, job) ==
  [M EXCEPT !.events = Append(@, [type |-> "sendUserMessage", jobId |-> job.id])]

\* faulty variant of executeJob: the first "fire" event is emitted before
\* the Running status is written
executeJobEmitsFirst(M, job, t, sink) ==
  LET M0 == emitChange(M, Ev("fire", job.id, job.enabled))
      M1 == [M0 EXCEPT !.file = storageUpdateJob(@, job.id, RunningPartial)]
      M2 == IF sink = "sendMessage" THEN M1 ELSE sendMessage(M1, job)
      M3 == IF sink = "ok" THEN sendUserMessage(M2, job) ELSE M2
  IN  IF sink = "ok"
      THEN emitChange(
             [M3 EXCEPT !.file = storageUpdateJob(@, job.id,
                                   SuccessPartial(job, t, getNextRun(M3, job.id, t))),
                        !.g[job.id].ok = @ + 1],
             Ev("fire", job.id, job.enabled))
      ELSE executeJobCatch(M3, job, t)

\* sink: "ok", or the call that throws: "sendMessage" or "sendUserMessage"
executeJob(M, job, t, sink) ==
  LET M1 == emitChange(
              [M EXCEPT !.file = storageUpdateJob(@, job.id, RunningPartial)],
              Ev("fire", job.id, job.enabled))
      M2 == IF sink = "sendMessage" THEN M1 ELSE sendMessage(M1, job)
      M3 == IF sink = "ok" THEN sendUserMessage(M2, job) ELSE M2
  IN  IF sink = "ok"
      THEN emitChange(
             [M3 EXCEPT !.file = storageUpdateJob(@, job.id,
                                   SuccessPartial(job, t, getNextRun(M3, job.id, t))),
                        !.g[job.id].ok = @ + 1],
             Ev("fire", job.id, job.enabled))
      ELSE executeJobCatch(M3, job, t)

\* faulty variant of DisablePartial: the one-shot job is left enabled
DisablePartialKeepsEnabled == [enabled |-> TRUE]

DisablePartial == [enabled |-> FALSE]

\* faulty variant of timerCallback: the one-shot job is switched off
\* before it is executed
timerCallbackDisablesFirst(M, h, t, sink) ==
  LET tm == M.timers[h]
  IN  IF tm.kind = "interval"
      THEN executeJob([M EXCEPT !.timers[h].due = t + tm.job.intervalMs], tm.job, t, sink)
      ELSE IF tm.kind = "timeout"
      THEN LET M1 == emitChange(
                       [M EXCEPT !.timers[h].live = FALSE,
                                 !.file = storageUpdateJob(@, tm.job.id, DisablePartial)],
                       Ev("update", tm.job.id, FALSE))
           IN  executeJob(M1, tm.job, t, sink)
      ELSE executeJob([M EXCEPT !.timers[h].due = CronNextRun(t)], tm.job, t, sink)

\* the callback of the timer with handle h runs
timerCallback(M, h, t, sink) ==
  LET tm == M.timers[h]
  IN  IF tm.kind = "interval"
      THEN executeJob([M EXCEPT !.timers[h].due = t + tm.job.intervalMs], tm.job, t, sink)
      ELSE IF tm.kind = "timeout"
      THEN LET M1 == executeJob([M EXCEPT !.timers[h].live = FALSE], tm.job, t, sink)
           IN  emitChange(
                 [M1 EXCEPT !.file = storageUpdateJob(@, tm.job.id, DisablePartial)],
                 Ev("update", tm.job.id, FALSE))
      ELSE executeJob([M EXCEPT !.timers[h].due = CronNextRun(t)], tm.job, t, sink)

\* ------------------------------------------------------------ the inputs
\* "" is an omitted name or type, <<>> an omitted schedule; a fresh
\* `job-${nanoid(6)}` name is "job-<id>"
AutoName(k) ==
  CASE k = 1 -> "job-1" [] k = 2 -> "job-2" [] k = 3 -> "job-3" [] OTHER -> "job-n"

Cron6 == <<"*", " ", "*", " ", "*", " ", "*", " ", "*", " ", "*">>
Cron5 == <<"*", " ", "*", " ", "*", " ", "*", " ", "*">>
Cron6Bad == <<"x", " ", "*", " ", "*", " ", "*", " ", "*", " ", "*">>

Req(name, type, sched, hasPrompt) ==
  [name |-> name, type |-> type, sched |-> sched, hasPrompt |-> hasPrompt]

SinkOutcomes == {"ok", "sendMessage", "sendUserMessage"}

Last(op, id, err, ret) == [op |-> op, id |-> id, err |-> err, ret |-> ret]

Idle == [pc |-> "idle", snap |-> <<>>]

\* the watcher validateCronExpression leaves running when it builds one
leaveOrphan(M, v) ==
  IF v.built THEN [M EXCEPT !.orphans = IF @ < MaxOrphans THEN @ + 1 ELSE @] ELSE M

\* -------------------------------------------------- schedule_prompt: add
\* the recursion guard: a scheduled_prompt entry among the last 10 entries
\* faulty variant of hasScheduledPrompt: the window is one entry short
hasScheduledPromptShortWindow == sinceSP < GuardWindow - 1

hasScheduledPrompt == sinceSP < GuardWindow

\* the job an add request builds ("" in err: no error), in the order of the
\* checks of execute(); t is Date.now()
addRequest(f, guarded, name, type0, sched, hasPrompt, id, t) ==
  LET jobName == IF name # "" THEN name ELSE AutoName(id)
      type == IF type0 # "" THEN type0 ELSE "cron"
      parsed == parseInterval(sched)
      intervalMs == IF parsed # -1 THEN parsed ELSE 0
      rel == parseRelativeTime(sched, t)
      date == DateParse(sched)
      v == validateCronExpression(sched)
      err == IF guarded THEN "recursion"
             ELSE IF sched = <<>> \/ ~hasPrompt THEN "missing"
             ELSE IF hasJobWithName(f, jobName) THEN "duplicate"
             ELSE IF type = "interval"
             THEN (IF intervalMs = 0 THEN "interval" ELSE "")
             ELSE IF type = "once"
             THEN (IF rel # <<>> THEN ""
                   ELSE IF date = -1 THEN "timestamp"
                   ELSE IF date - t < 0 THEN "past"
                   ELSE IF date - t < TooSoonMs THEN "soon"
                   ELSE "")
             ELSE (IF ~v.valid THEN "cron" ELSE "")
      schedule == IF type = "once"
                  THEN (IF rel # <<>> THEN rel ELSE toISOString(date))
                  ELSE sched
  IN  [err |-> err,
       built |-> (~guarded /\ sched # <<>> /\ hasPrompt /\ ~hasJobWithName(f, jobName)
                  /\ type = "cron" /\ v.built),
       job |-> [NoJob EXCEPT !.id = id, !.name = jobName, !.schedule = schedule,
                             !.enabled = TRUE, !.type = type,
                             !.intervalMs = IF type = "interval" THEN intervalMs ELSE 0]]

\* faulty variant of ToolAdd: the job is stored and armed before the checks of the
\* once timestamp reject it
ToolAddPersistsFirst(name, type0, sched, hasPrompt) ==
  /\ session = "active"
  /\ LET r == addRequest(file, hasScheduledPrompt, name, type0, sched, hasPrompt, nextId, now)
         M0 == leaveOrphan(Cur, [built |-> r.built])
     IN  IF r.err \in {"past", "soon"}
         THEN /\ nextId <= MaxJobs
              /\ Commit(addJob([M0 EXCEPT !.file = storageAddJob(@, r.job)], r.job, now))
              /\ nextId' = nextId + 1
              /\ last' = Last("add", 0, r.err, FALSE)
         ELSE IF r.err # ""
         THEN /\ Commit(M0)
              /\ nextId' = nextId
              /\ last' = Last("add", 0, r.err, FALSE)
         ELSE /\ nextId <= MaxJobs
              /\ Commit(addJob([M0 EXCEPT !.file = storageAddJob(@, r.job)], r.job, now))
              /\ nextId' = nextId + 1
              /\ last' = Last("add", r.job.id, "", TRUE)
  /\ UNCHANGED <<now, session, menu>>

ToolAdd(name, type0, sched, hasPrompt) ==
  /\ session = "active"
  /\ LET r == addRequest(file, hasScheduledPrompt, name, type0, sched, hasPrompt, nextId, now)
         M0 == leaveOrphan(Cur, [built |-> r.built])
     IN  IF r.err # ""
         THEN /\ Commit(M0)
              /\ nextId' = nextId
              /\ last' = Last("add", 0, r.err, FALSE)
         ELSE /\ nextId <= MaxJobs
              /\ Commit(addJob([M0 EXCEPT !.file = storageAddJob(@, r.job)], r.job, now))
              /\ nextId' = nextId + 1
              /\ last' = Last("add", r.job.id, "", TRUE)
  /\ UNCHANGED <<now, session, menu>>

\* ---------------------------------------- schedule_prompt: other actions
\* id 0 is an omitted jobId
jobIdError(f, id) ==
  IF id = 0 THEN "jobId" ELSE IF getJob(f, id) = NoJob THEN "notfound" ELSE ""

ToolRemove(id) ==
  /\ session = "active"
  /\ IF jobIdError(file, id) # ""
     THEN /\ Commit(Cur)
          /\ last' = Last("remove", id, jobIdError(file, id), FALSE)
     ELSE /\ Commit(removeJob([Cur EXCEPT !.file = storageRemoveJob(@, id)], id))
          /\ last' = Last("remove", id, "", FALSE)
  /\ UNCHANGED <<now, session, nextId, menu>>

\* enable and disable
ToolEnable(id, enabled) ==
  /\ session = "active"
  /\ LET op == IF enabled THEN "enable" ELSE "disable"
         job == getJob(file, id)
         updated == Assign(job, [enabled |-> enabled])
     IN  IF jobIdError(file, id) # ""
         THEN /\ Commit(Cur)
              /\ last' = Last(op, id, jobIdError(file, id), FALSE)
         ELSE /\ Commit(updateJob(
                   [Cur EXCEPT !.file = storageUpdateJob(@, id, [enabled |-> enabled]),
                               !.g[id].off = ~enabled],
                   id, updated, now))
              /\ last' = Last(op, id, "", updated.enabled)
  /\ UNCHANGED <<now, session, nextId, menu>>

\* storage.removeJob and scheduler.removeJob for each job of the list
RECURSIVE removeAll(_, _)
removeAll(M, list) ==
  IF Len(list) = 0 THEN M
  ELSE removeAll(removeJob([M EXCEPT !.file = storageRemoveJob(@, Head(list).id)],
                           Head(list).id),
                 Tail(list))

isDisabled(j) == ~j.enabled

ToolCleanup ==
  /\ session = "active"
  /\ Commit(removeAll(Cur, SelectSeq(getAllJobs(file), isDisabled)))
  /\ last' = Last("cleanup", 0, "", FALSE)
  /\ UNCHANGED <<now, session, nextId, menu>>

\* the partial an update request builds; the schedule is checked by the
\* stored type of the job
updateRequest(job, name, sched) ==
  LET parsed == parseInterval(sched)
      intervalMs == IF parsed # -1 THEN parsed ELSE 0
      date == DateParse(sched)
      v == validateCronExpression(sched)
      named == IF name # "" THEN [name |-> name] ELSE <<>>
      err == IF sched = <<>> THEN ""
             ELSE IF job.type = "interval"
             THEN (IF intervalMs = 0 THEN "interval" ELSE "")
             ELSE IF job.type = "once"
             THEN (IF date = -1 THEN "timestamp" ELSE "")
             ELSE (IF ~v.valid THEN "cron" ELSE "")
      scheduled ==
        IF sched = <<>> THEN <<>>
        ELSE IF job.type = "interval"
        THEN [schedule |-> sched, intervalMs |-> intervalMs]
        ELSE IF job.type = "once"
        THEN [schedule |-> toISOString(date)]
        ELSE [schedule |-> sched]
  IN  [err |-> err,
       built |-> (sched # <<>> /\ job.type \notin {"interval", "once"} /\ v.built),
       updates |-> named @@ scheduled]

ToolUpdate(id, name, sched) ==
  /\ session = "active"
  /\ LET job == getJob(file, id)
         r == updateRequest(job, name, sched)
         M0 == leaveOrphan(Cur, [built |-> r.built])
         updated == Assign(job, r.updates)
     IN  IF jobIdError(file, id) # ""
         THEN /\ Commit(Cur)
              /\ last' = Last("update", id, jobIdError(file, id), FALSE)
         ELSE IF r.err # ""
         THEN /\ Commit(M0)
              /\ last' = Last("update", id, r.err, FALSE)
         ELSE /\ Commit(updateJob(
                   [M0 EXCEPT !.file = storageUpdateJob(@, id, r.updates),
                              !.g[id].resched = @ \/ sched # <<>>],
                   id, updated, now))
              /\ last' = Last("update", id, "", updated.enabled)
  /\ UNCHANGED <<now, session, nextId, menu>>

\* ------------------------------------------------ /schedule-prompt command
\* The handler reads the job list, then awaits the user's choice; other
\* handlers and timer callbacks run during the await.  menu.snap is the list
\* the handler read.  (The select and the confirm of "Remove Job" are one
\* await here: the choice depends on the list alone.)
MenuKinds == {"toggle", "remove", "cleanup"}

MenuOpen(kind) ==
  /\ session = "active"
  /\ menu.pc = "idle"
  /\ LET all == getAllJobs(file)
         list == IF kind = "cleanup" THEN SelectSeq(all, isDisabled) ELSE all
     IN  menu' = IF Len(list) = 0 THEN Idle
                 ELSE [pc |-> kind, snap |-> [i \in 1..Len(list) |-> Captured(list[i])]]
  /\ last' = Last("menu_open", 0, "", FALSE)
  /\ Commit(Cur)
  /\ UNCHANGED <<now, session, nextId>>

\* the label of a job in the toggle list
toggleLabel(j) == <<IF j.enabled THEN "on" ELSE "off", j.name>>

\* k = 0: the user dismisses the list; otherwise the user picks row k
MenuToggle(k) ==
  /\ session = "active"
  /\ menu.pc = "toggle"
  /\ k \in 0..Len(menu.snap)
  /\ menu' = Idle
  /\ IF k = 0
     THEN /\ Commit(Cur)
          /\ last' = Last("menu_toggle", 0, "cancel", FALSE)
     ELSE LET test(j) == toggleLabel(j) = toggleLabel(menu.snap[k])
              job == menu.snap[FindIndex(menu.snap, test)]
              newEnabled == ~job.enabled
              updated == Assign(job, [enabled |-> newEnabled])
          IN  /\ Commit(updateJob(
                     [Cur EXCEPT !.file = storageUpdateJob(@, job.id, [enabled |-> newEnabled]),
                                 !.g[job.id].off = ~newEnabled],
                     job.id, updated, now))
              /\ last' = Last("menu_toggle", job.id, "", newEnabled)
  /\ UNCHANGED <<now, session, nextId>>

MenuRemove(k, confirmed) ==
  /\ session = "active"
  /\ menu.pc = "remove"
  /\ k \in 0..Len(menu.snap)
  /\ menu' = Idle
  /\ IF k = 0 \/ ~confirmed
     THEN /\ Commit(Cur)
          /\ last' = Last("menu_remove", 0, "cancel", FALSE)
     ELSE LET test(j) == j.name = menu.snap[k].name
              job == menu.snap[FindIndex(menu.snap, test)]
          IN  /\ Commit(removeJob([Cur EXCEPT !.file = storageRemoveJob(@, job.id)], job.id))
              /\ last' = Last("menu_remove", job.id, "", FALSE)
  /\ UNCHANGED <<now, session, nextId>>

MenuCleanup(confirmed) ==
  /\ session = "active"
  /\ menu.pc = "cleanup"
  /\ menu' = Idle
  /\ IF confirmed
     THEN /\ Commit(removeAll(Cur, menu.snap))
          /\ last' = Last("menu_cleanup", 0, "", FALSE)
     ELSE /\ Commit(Cur)
          /\ last' = Last("menu_cleanup", 0, "cancel", FALSE)
  /\ UNCHANGED <<now, session, nextId>>

\* "Add New Job": the inputs are awaited first, then the job is checked and
\* created in one go; name and schedule are not empty
menuAddRequest(name, type, sched, id) ==
  LET parsed == parseInterval(sched)
      intervalMs == IF parsed # -1 THEN parsed ELSE 0
      date == DateParse(sched)
      v == validateCronExpression(sched)
      err == IF type = "interval"
             THEN (IF intervalMs = 0 THEN "interval" ELSE "")
             ELSE IF type = "once"
             THEN (IF date = -1 THEN "timestamp" ELSE "")
             ELSE (IF ~v.valid THEN "cron" ELSE "")
  IN  [err |-> err,
       built |-> (type = "cron" /\ v.built),
       job |-> [NoJob EXCEPT !.id = id, !.name = name,
                             !.schedule = IF type = "once" THEN toISOString(date) ELSE sched,
                             !.enabled = TRUE, !.type = type,
                             !.intervalMs = IF type = "interval" THEN intervalMs ELSE 0]]

MenuAdd(name, type, sched) ==
  /\ session = "active"
  /\ menu.pc = "idle"
  /\ name # "" /\ type # "" /\ sched # <<>>
  /\ LET r == menuAddRequest(name, type, sched, nextId)
         M0 == leaveOrphan(Cur, [built |-> r.built])
     IN  IF r.err # ""
         THEN /\ Commit(M0)
              /\ nextId' = nextId
              /\ last' = Last("menu_add", 0, r.err, FALSE)
         ELSE /\ nextId <= MaxJobs
              /\ Commit(addJob([M0 EXCEPT !.file = storageAddJob(@, r.job)], r.job, now))
              /\ nextId' = nextId + 1
              /\ last' = Last("menu_add", r.job.id, "", TRUE)
  /\ UNCHANGED <<now, session, menu>>

\* ------------------------------------------------------- session lifecycle
\* new CronStorage, new CronScheduler (empty maps), scheduler.start()
initializeSession(M, t) ==
  start([M EXCEPT !.jobs = [id \in JobIds |-> 0],
                  !.intervals = [id \in JobIds |-> 0]], t)

\* faulty variant of cleanupSession: the engine is dropped without stop()
cleanupSessionSkipsStop(M) == M

cleanupSession(M) == stop(M)

RECURSIVE storageRemoveAll(_, _)
storageRemoveAll(f, list) ==
  IF Len(list) = 0 THEN f
  ELSE storageRemoveAll(storageRemoveJob(f, Head(list).id), Tail(list))

isEnabled(j) == j.enabled

\* faulty variant of autoCleanupDisabledJobs: the filter is inverted
autoCleanupEnabledJobs(M) ==
  [M EXCEPT !.file = storageRemoveAll(@, SelectSeq(getAllJobs(@), isEnabled))]

autoCleanupDisabledJobs(M) ==
  [M EXCEPT !.file = storageRemoveAll(@, SelectSeq(getAllJobs(@), isDisabled))]

\* session_start; the entries of the session hold no scheduled prompt
SessionStart ==
  /\ session = "none"
  /\ session' = "active"
  /\ Commit([initializeSession(Cur, now) EXCEPT !.sinceSP = GuardWindow])
  /\ last' = Last("session_start", 0, "", FALSE)
  /\ UNCHANGED <<now, nextId, menu>>

\* session_switch (the entries are those of the other session) and
\* session_fork (the entries are kept)
SessionSwitch(fork) ==
  /\ session = "active"
  /\ Commit([initializeSession(cleanupSession(autoCleanupDisabledJobs(Cur)), now)
               EXCEPT !.sinceSP = IF fork THEN @ ELSE GuardWindow])
  /\ last' = Last(IF fork THEN "session_fork" ELSE "session_switch", 0, "", FALSE)
  /\ UNCHANGED <<now, session, nextId, menu>>

SessionShutdown ==
  /\ session = "active"
  /\ session' = "none"
  /\ menu' = Idle
  /\ Commit(cleanupSession(autoCleanupDisabledJobs(Cur)))
  /\ last' = Last("session_shutdown", 0, "", FALSE)
  /\ UNCHANGED <<now, nextId>>

\* the process dies without session_shutdown and is started again: only
\* the file survives
ProcessRestart ==
  /\ session' = "none"
  /\ menu' = Idle
  /\ Commit([Cur EXCEPT !.jobs = [id \in JobIds |-> 0],
                        !.intervals = [id \in JobIds |-> 0],
                        !.timers = [h \in Handles |-> FreeTimer],
                        !.orphans = 0,
                        !.sinceSP = GuardWindow])
  /\ last' = Last("restart", 0, "", FALSE)
  /\ UNCHANGED <<now, nextId>>

\* ------------------------------------------------------------ environment
\* the agent and the user append k entries to the session
AppendEntries(k) ==
  /\ session = "active"
  /\ sinceSP < GuardWindow
  /\ Commit([Cur EXCEPT !.sinceSP = IF @ + k >= GuardWindow THEN GuardWindow ELSE @ + k])
  /\ last' = Last("entries", 0, "", FALSE)
  /\ UNCHANGED <<now, session, nextId, menu>>

Tick ==
  /\ now + TickMs <= MaxTime
  /\ now' = now + TickMs
  /\ Commit(Cur)
  /\ last' = Last("tick", 0, "", FALSE)
  /\ UNCHANGED <<session, nextId, menu>>

\* a due timer or watcher fires
Fire(h, sink) ==
  /\ timers[h].live
  /\ now >= timers[h].due
  /\ Commit(timerCallback(Cur, h, now, sink))
  /\ last' = Last("fire", timers[h].job.id, IF sink = "ok" THEN "" ELSE sink, FALSE)
  /\ UNCHANGED <<now, session, nextId, menu>>

\* ------------------------------------------------------------------ system
NoTemp == [file |-> NoFile, saving |-> FALSE]

\* everything but the file
InitProcess ==
  /\ temp = NoTemp
  /\ jobs = [id \in JobIds |-> 0]
  /\ intervals = [id \in JobIds |-> 0]
  /\ timers = [h \in Handles |-> FreeTimer]
  /\ orphans = 0
  /\ sinceSP = GuardWindow
  /\ events = <<>>
  /\ g = [id \in JobIds |-> NoHistory]
  /\ now = 0
  /\ session = "none"
  /\ nextId = 1
  /\ menu = Idle
  /\ last = Last("init", 0, "", FALSE)

NoProbe == [fn |-> "", arg |-> <<>>, out |-> -1]

Init == file = NoFile /\ probe = NoProbe /\ InitProcess

\* the requests of the main specification: a job of each kind under one
\* name, so that one job is stored at a time
AddRequests ==
  {Req("a", "interval", <<"1", "s">>, TRUE),
   Req("a", "", Cron6, TRUE),
   Req("a", "once", <<"+", "1", "s">>, TRUE),
   Req("a", "once", toISOString(2 * TickMs), TRUE)}

UpdateRequests == {Req("", "", <<>>, TRUE), Req("", "", toISOString(3 * TickMs), TRUE)}

Stored(id) == storageHasId(file, id)

Next ==
  \/ \E r \in AddRequests : ToolAdd(r.name, r.type, r.sched, r.hasPrompt)
  \/ \E id \in JobIds : Stored(id) /\ ToolRemove(id)
  \/ \E id \in JobIds, enabled \in BOOLEAN : Stored(id) /\ ToolEnable(id, enabled)
  \/ ToolCleanup
  \/ \E id \in JobIds, r \in UpdateRequests : Stored(id) /\ ToolUpdate(id, r.name, r.sched)
  \/ SessionStart
  \/ \E fork \in BOOLEAN : SessionSwitch(fork)
  \/ SessionShutdown
  \/ ProcessRestart
  \/ AppendEntries(GuardWindow)
  \/ Tick
  \/ \E h \in Handles, sink \in SinkOutcomes : Fire(h, sink)

Spec == Init /\ [][Next]_vars

\* ----------------------------------------------- the command and the tool
\* The /schedule-prompt handler interleaved with tool calls and timers, for
\* an interval job.
RaceRequests == {Req("a", "interval", <<"1", "s">>, TRUE)}

NextRace ==
  \/ \E r \in RaceRequests : ToolAdd(r.name, r.type, r.sched, r.hasPrompt)
  \/ \E id \in JobIds : Stored(id) /\ ToolRemove(id)
  \/ \E id \in JobIds, enabled \in BOOLEAN : Stored(id) /\ ToolEnable(id, enabled)
  \/ \E kind \in MenuKinds : MenuOpen(kind)
  \/ \E k \in 0..MaxJobs : MenuToggle(k)
  \/ \E k \in 0..MaxJobs, confirmed \in BOOLEAN : MenuRemove(k, confirmed)
  \/ \E confirmed \in BOOLEAN : MenuCleanup(confirmed)
  \/ SessionStart
  \/ Tick
  \/ \E h \in Handles : Fire(h, "ok")

SpecRace == Init /\ [][NextRace]_vars

\* ---------------------------------------------------- two jobs side by side
\* An interval job and a once or cron job running together, with a sink
\* that may fail.
PairRequests ==
  {Req("a", "interval", <<"1", "s">>, TRUE),
   Req("b", "once", <<"+", "1", "s">>, TRUE),
   Req("b", "", Cron6, TRUE)}

NextPair ==
  \/ \E r \in PairRequests : ToolAdd(r.name, r.type, r.sched, r.hasPrompt)
  \/ \E id \in JobIds : Stored(id) /\ ToolRemove(id)
  \/ SessionStart
  \/ Tick
  \/ \E h \in Handles, sink \in SinkOutcomes : Fire(h, sink)

SpecPair == Init /\ [][NextPair]_vars

\* ------------------------------------------------------- creation requests
\* Every way a creation request can end, through the tool and the command.
CreateRequests ==
  {Req("a", "interval", <<"1", "s">>, TRUE),
   Req("a", "once", <<>>, TRUE),
   Req("a", "", Cron6, FALSE),
   Req("b", "interval", <<"0", "s">>, TRUE),
   Req("b", "interval", <<"+", "1", "s">>, TRUE),
   Req("b", "once", <<"1", "s">>, TRUE),
   Req("b", "once", <<"+", "1", "s">>, TRUE),
   Req("b", "once", <<"+", "0", "s">>, TRUE),
   Req("b", "once", toISOString(0), TRUE),
   Req("b", "once", toISOString(2 * TickMs), TRUE),
   Req("b", "", Cron5, TRUE),
   Req("b", "cron", Cron6Bad, TRUE),
   Req("", "", Cron6, TRUE)}

MenuAddRequests ==
  {Req("a", "once", toISOString(0), TRUE),
   Req("a", "once", <<"+", "1", "s">>, TRUE),
   Req("a", "interval", <<"x">>, TRUE),
   Req("a", "cron", Cron5, TRUE)}

NextCreate ==
  \/ \E r \in CreateRequests : ToolAdd(r.name, r.type, r.sched, r.hasPrompt)
  \/ \E r \in MenuAddRequests : MenuAdd(r.name, r.type, r.sched)
  \/ SessionStart
  \/ AppendEntries(GuardWindow - 1)
  \/ Tick
  \/ \E h \in Handles : Fire(h, "ok")

SpecCreate == Init /\ [][NextCreate]_vars

\* ------------------------------------------------------ sessions, two jobs
\* An interval job and a once job, switched off and on, across the ends and
\* starts of sessions.
SessionRequests ==
  {Req("a", "interval", <<"1", "s">>, TRUE),
   Req("b", "once", toISOString(2 * TickMs), TRUE)}

NextSession ==
  \/ \E r \in SessionRequests : ToolAdd(r.name, r.type, r.sched, r.hasPrompt)
  \/ \E id \in JobIds : Stored(id) /\ ToolEnable(id, FALSE)
  \/ SessionStart
  \/ \E fork \in BOOLEAN : SessionSwitch(fork)
  \/ SessionShutdown
  \/ ProcessRestart
  \/ Tick
  \/ \E h \in Handles : Fire(h, "ok")

SpecSession == Init /\ [][NextSession]_vars

\* ------------------------------------------------------------- the store
\* CronStorage on its own: the file as the process may find it, the writes
\* of the store taken step by step, and the process dying between the steps.
SampleJobs ==
  {[NoJob EXCEPT !.id = 1, !.name = "a", !.schedule = <<"1", "s">>, !.enabled = TRUE,
                 !.type = "interval", !.intervalMs = 1000],
   [NoJob EXCEPT !.id = 2, !.name = "b", !.schedule = toISOString(TickMs),
                 !.type = "once", !.runCount = 1, !.lastRun = toISOString(TickMs),
                 !.lastStatus = "success"]}

FoundFiles ==
  {NoFile, Garbled, [state |-> "misshapen", jobs |-> <<>>, version |-> StoreVersion]}
  \cup {[state |-> "ok", jobs |-> js, version |-> v] :
          js \in {<<>>} \cup {<<j>> : j \in SampleJobs}, v \in {StoreVersion, StoreVersion + 1}}

InitStore == file \in FoundFiles /\ probe = NoProbe /\ InitProcess

\* the load-modify-save cycles of the store, as the file each one saves
StoreWrites ==
  IF "jobs" \notin DOMAIN load(file) THEN {}
  ELSE {[op |-> "store_add", id |-> j.id, content |-> storageAddJob(file, j)] :
          j \in {k \in SampleJobs : ~storageHasId(file, k.id)}}
       \cup {[op |-> "store_remove", id |-> id, content |-> storageRemoveJob(file, id)] :
               id \in {k \in JobIds : storageRemoved(file, k)}}
       \cup {[op |-> "store_update", id |-> id,
               content |-> storageUpdateJob(file, id, [enabled |-> ~getJob(file, id).enabled])] :
               id \in {k \in JobIds : storageHasId(file, k)}}

Resaves == {[op |-> "resave", id |-> 0, content |-> save(load(file))]}

\* writeFileSync of save: the whole text, or the process dies in the write
SaveWrite(w, whole) ==
  /\ ~temp.saving
  /\ LET disk == writeFileSync([file |-> file, temp |-> temp.file], tempPath, w.content, whole)
     IN  /\ file' = disk.file
         /\ temp' = [file |-> disk.temp, saving |-> whole]
  /\ last' = Last(w.op, w.id, IF whole THEN "" ELSE "crash", FALSE)
  /\ UNCHANGED <<jobs, intervals, timers, orphans, sinceSP, events, g, now, session,
                 nextId, menu, probe>>

\* renameSync of save
SaveRename ==
  /\ temp.saving
  /\ temp.file.state # "missing"
  /\ LET disk == renameSync([file |-> file, temp |-> temp.file])
     IN  /\ file' = disk.file
         /\ temp' = [file |-> disk.temp, saving |-> FALSE]
  /\ last' = [last EXCEPT !.ret = TRUE]
  /\ UNCHANGED <<jobs, intervals, timers, orphans, sinceSP, events, g, now, session,
                 nextId, menu, probe>>

\* the process dies after the write and before the rename
SaveCrash ==
  /\ temp.saving
  /\ temp' = [temp EXCEPT !.saving = FALSE]
  /\ last' = [last EXCEPT !.err = "crash"]
  /\ UNCHANGED <<file, jobs, intervals, timers, orphans, sinceSP, events, g, now, session,
                 nextId, menu, probe>>

StorageLoad ==
  /\ ~temp.saving
  /\ last' = Last("load", 0, "", "jobs" \in DOMAIN load(file))
  /\ UNCHANGED <<file, temp, jobs, intervals, timers, orphans, sinceSP, events, g, now,
                 session, nextId, menu, probe>>

NextStore ==
  \/ \E w \in StoreWrites \cup Resaves, whole \in BOOLEAN : SaveWrite(w, whole)
  \/ SaveRename
  \/ SaveCrash
  \/ StorageLoad

SpecStore == InitStore /\ [][NextStore]_vars

\* ------------------------------------------------- a store found at start
\* The engine working on a store file it did not write in this process: a
\* Cron job whose expression the store holds as it is, whether or not Cron
\* accepts it, alone or followed by an Interval job.
FoundCronJobs ==
  {[NoJob EXCEPT !.id = 1, !.name = "a", !.schedule = sched, !.enabled = enabled,
                 !.type = "cron"] :
     sched \in {Cron6, Cron6Bad}, enabled \in BOOLEAN}

FoundIntervalJob ==
  [NoJob EXCEPT !.id = 2, !.name = "b", !.schedule = <<"1", "s">>, !.enabled = TRUE,
                !.type = "interval", !.intervalMs = 1000]

FoundStores ==
  {[state |-> "ok", jobs |-> js, version |-> StoreVersion] :
     js \in {<<j>> : j \in FoundCronJobs}
            \cup {<<j, FoundIntervalJob>> : j \in FoundCronJobs}}

InitFound == file \in FoundStores /\ probe = NoProbe /\ InitProcess

NextFound ==
  \/ \E id \in JobIds, enabled \in BOOLEAN : Stored(id) /\ ToolEnable(id, enabled)
  \/ \E id \in JobIds : Stored(id) /\ ToolUpdate(id, "", <<>>)
  \/ SessionStart
  \/ SessionShutdown
  \/ Tick
  \/ \E h \in Handles : Fire(h, "ok")

SpecFound == InitFound /\ [][NextFound]_vars

\* ------------------------------------------------- the parsers on their own
\* The static functions of CronScheduler, each called once on a string of
\* the characters below or on a cron expression.
MaxInput == 3

\* the largest number the strings write: every product with a multiplier
\* stays within the 32-bit integers of TLC, where the code computes in doubles
MaxValue == 20

Alphabet == {"0", "1", "5", "s", "m", "h", "d", "+", "x", " "}

Cron7 == Cron6 \o <<" ", "*">>

CronInputs ==
  {Cron6, Cron5, Cron6Bad, Cron7, <<" ">> \o Cron6 \o <<" ">>,
   <<"*", " ", " ">> \o SubSeq(Cron6, 3, Len(Cron6)), <<" ">> \o Cron5}

WritesSmallNumbers(s) ==
  \A i, k \in 1..Len(s) :
    (i <= k /\ IsDigits(SubSeq(s, i, k))) => parseInt(SubSeq(s, i, k)) <= MaxValue

ParseInputs ==
  {s \in UNION {[1..n -> Alphabet] : n \in 0..MaxInput} : WritesSmallNumbers(s)}
  \cup CronInputs

InitParse ==
  /\ file = NoFile
  /\ probe \in {[fn |-> "", arg |-> s, out |-> -1] : s \in ParseInputs}
  /\ InitProcess

CallParseInterval ==
  /\ probe.fn = ""
  /\ probe' = [probe EXCEPT !.fn = "parseInterval", !.out = parseInterval(probe.arg)]
  /\ UNCHANGED <<file, jobs, intervals, timers, orphans, sinceSP, events, g, now,
                 session, nextId, menu, temp, last>>

CallValidateCronExpression ==
  /\ probe.fn = ""
  /\ probe' = [probe EXCEPT !.fn = "validateCronExpression",
                            !.out = validateCronExpression(probe.arg)]
  /\ orphans' = leaveOrphan(Cur, validateCronExpression(probe.arg)).orphans
  /\ UNCHANGED <<file, jobs, intervals, timers, sinceSP, events, g, now,
                 session, nextId, menu, temp, last>>

CallParseRelativeTime ==
  /\ probe.fn = ""
  /\ probe' = [probe EXCEPT !.fn = "parseRelativeTime",
                            !.out = parseRelativeTime(probe.arg, now)]
  /\ UNCHANGED <<file, jobs, intervals, timers, orphans, sinceSP, events, g, now,
                 session, nextId, menu, temp, last>>

NextParse ==
  \/ CallParseInterval
  \/ CallValidateCronExpression
  \/ CallParseRelativeTime

SpecParse == InitParse /\ [][NextParse]_vars

\* ------------------------------------------------------------ observation
StoredJob(id) == getJob(file, id)

NameStored(name) == \E i \in 1..Len(getAllJobs(file)) : getAllJobs(file)[i].name = name

\* the timers and watchers of the process that can still fire
LiveTimers == {h \in Handles : timers[h].live}

LiveFor(id) == {h \in LiveTimers : timers[h].job.id = id}

\* executions of the job with this id, delivered or failed
Runs(id) == g[id].ok + g[id].fail

EngineUnchanged == timers' = timers /\ jobs' = jobs /\ intervals' = intervals

\* C1: a Once job whose schedule no update has changed executes at most once;
\* once it has executed, the stored job is disabled and holds no live timer,
\* whatever stop(), restart and start() follow.
C1_OnceExecutesAtMostOnce ==
  \A id \in JobIds :
    (Stored(id) /\ StoredJob(id).type = "once" /\ ~g[id].resched)
      => /\ Runs(id) <= 1
         /\ Runs(id) = 1 => (~StoredJob(id).enabled /\ LiveFor(id) = {})

\* a Once job has executed, the process was restarted and start() has run
C1_Witness ==
  \E id \in JobIds :
    /\ Stored(id) /\ StoredJob(id).type = "once" /\ ~g[id].resched
    /\ Runs(id) = 1
    /\ last.op = "session_start"

\* C2: an Interval job created with runCount 0 and armed once, that fired N
\* times with successful delivery, has runCount = N and is still enabled.
C2_IntervalRunCountIsFireCount ==
  \A id \in JobIds :
    (/\ Stored(id) /\ StoredJob(id).type = "interval"
     /\ g[id].arms = 1 /\ ~g[id].off /\ g[id].fail = 0 /\ g[id].ok >= 1)
      => (StoredJob(id).runCount = g[id].ok /\ StoredJob(id).enabled)

\* C3: every live timer or watcher belongs to a job that is in the store
\* with enabled = true; a disabled or deleted job has no outstanding timer.
C3_LiveTimersAreEnabledJobs ==
  \A h \in LiveTimers :
    Stored(timers[h].job.id) /\ StoredJob(timers[h].job.id).enabled

\* C4: a job switched off by disable (or by an update to enabled = false)
\* has no live timer from that step on, so it cannot fire, until it is
\* switched on again.
C4_DisabledJobHasNoTimer ==
  \A id \in JobIds : g[id].off => LiveFor(id) = {}

\* a job that has been firing was just disabled
C4_Witness ==
  /\ last.op = "disable" /\ last.err = ""
  /\ g[last.id].off /\ g[last.id].ok >= 1
  /\ now >= TickMs

\* C5: the stored runCount of a job never decreases, whatever step is taken.
C5_RunCountNeverDecreases ==
  [][\A id \in JobIds :
       (Stored(id) /\ storageHasId(file', id))
         => getJob(file', id).runCount >= StoredJob(id).runCount]_vars

\* C6: when the sink fails during the execution of a stored job, lastRun =
\* now and lastStatus = error are persisted, an "error" event is emitted and
\* runCount is incremented by one.
C6_FailedRunIsCounted ==
  [][(last'.op = "fire" /\ last'.err # "" /\ Stored(last'.id))
       => /\ getJob(file', last'.id).lastRun = toISOString(now)
          /\ getJob(file', last'.id).lastStatus = "error"
          /\ \E i \in 1..Len(events') :
                events'[i].type = "error" /\ events'[i].jobId = last'.id
          /\ getJob(file', last'.id).runCount = StoredJob(last'.id).runCount + 1]_vars

\* C7: a failed execution stays inside the timer callback: the callback runs
\* to its end (a one-shot job is still disabled afterwards), every other
\* live timer stays armed as it was, and so does the timer of a recurring
\* job that failed.
C7_FailureLeavesTimersArmed ==
  [][(last'.op = "fire" /\ last'.err # "")
       => /\ jobs' = jobs /\ intervals' = intervals
          /\ \A h \in LiveTimers :
                (timers[h].job.id # last'.id \/ timers[h].kind # "timeout")
                  => /\ timers'[h].live
                     /\ timers'[h].job = timers[h].job
                     /\ timers'[h].kind = timers[h].kind
          /\ \A h \in LiveTimers :
                (timers[h].job.id = last'.id /\ timers[h].kind = "timeout"
                 /\ Stored(last'.id))
                  => ~getJob(file', last'.id).enabled]_vars

\* an execution has failed while another job holds a live timer
C7_Witness ==
  /\ last.op = "fire" /\ last.err # ""
  /\ LiveFor(last.id) # {}
  /\ \E h \in LiveTimers : timers[h].job.id # last.id

C9_PastOnceRejected ==
  [][last'.op \in {"add", "menu_add"} =>
     \A r \in CreateRequests \cup MenuAddRequests :
       (/\ r.type = "once" /\ DateParse(r.sched) # -1 /\ DateParse(r.sched) < now
        /\ \/ ToolAdd(r.name, r.type, r.sched, r.hasPrompt)
           \/ MenuAdd(r.name, r.type, r.sched))
         => (last'.err # "" /\ file' = file)]_vars

\* C10: a creation request that ends in an error leaves the store, the
\* engine's maps, the timers and watchers as they were and emits no event.
C10_FailedCreationChangesNothing ==
  [][(last'.op \in {"add", "menu_add"} /\ last'.err # "")
       => (file' = file /\ EngineUnchanged /\ orphans' = orphans
           /\ events' = <<>> /\ nextId' = nextId)]_vars

\* a too-soon timestamp was rejected while a stored job holds a live timer
C10_Witness ==
  /\ last.op = "add" /\ last.err = "soon"
  /\ Len(getAllJobs(file)) >= 1 /\ LiveTimers # {}

\* the live timers of a job after the step
LiveForNext(id) == {h \in Handles : timers'[h].live /\ timers'[h].job.id = id}

HasEvent(evs, type, id) ==
  \E i \in 1..Len(evs) : evs[i].type = type /\ evs[i].jobId = id

SessionOps == {"session_start", "session_switch", "session_fork"}

\* the step makes the engine arm the stored job id: start() finds it enabled,
\* enable switches it on, or update re-arms it while it is enabled
TriesToArm(id) ==
  /\ Stored(id) /\ last'.err = ""
  /\ \/ last'.op \in SessionOps /\ StoredJob(id).enabled
     \/ last'.op = "enable" /\ last'.id = id
     \/ last'.op = "update" /\ last'.id = id /\ StoredJob(id).enabled

\* C11: when the engine tries to arm a Once job whose instant is at or before
\* now, no timer is armed for it, the store gets enabled = false and
\* lastStatus = error, an "error" event is emitted, runCount is unchanged and
\* the job does not execute.
C11_LapsedOnceIsDisabled ==
  [][\A id \in JobIds :
       (/\ TriesToArm(id)
        /\ StoredJob(id).type = "once"
        /\ DateParse(getJob(file', id).schedule) - now <= 0)
         => /\ LiveForNext(id) = {}
            /\ intervals'[id] = 0 /\ jobs'[id] = 0
            /\ ~getJob(file', id).enabled
            /\ getJob(file', id).lastStatus = "error"
            /\ HasEvent(events', "error", id)
            /\ getJob(file', id).runCount = StoredJob(id).runCount
            /\ g'[id].ok = g[id].ok /\ g'[id].fail = g[id].fail]_vars

\* start() has found a Once job that never ran with its instant behind it
C11_Witness ==
  \E id \in JobIds :
    /\ last.op = "session_start"
    /\ Stored(id) /\ StoredJob(id).type = "once"
    /\ DateParse(StoredJob(id).schedule) <= now
    /\ HasEvent(events, "error", id)
    /\ Runs(id) = 0 /\ StoredJob(id).runCount = 0

\* C12: removing an id that is not in the store and holds no timer raises no
\* error and leaves the store and every timer as they were; the store's
\* removeJob returns false and writes nothing (a missing file stays missing).
C12_RemoveUnknownIsNoOp ==
  [][/\ \A id \in JobIds :
          ~Stored(id) => (~storageRemoved(file, id) /\ storageRemoveJob(file, id) = file)
     /\ (/\ last'.op = "menu_remove" /\ last'.err = ""
         /\ ~Stored(last'.id)
         /\ jobs[last'.id] = 0 /\ intervals[last'.id] = 0)
          => (file' = file /\ EngineUnchanged)]_vars

\* the command removed job 1 after the tool had removed it and created job 2
C12_Witness ==
  /\ last.op = "menu_remove" /\ last.err = "" /\ last.id = 1
  /\ ~Stored(1) /\ Stored(2) /\ LiveFor(2) # {}
  /\ HasEvent(events, "remove", 1)

NoEntries == [id \in JobIds |-> 0]

\* C13: after stop() both maps of the engine are empty and none of its
\* timers or watchers is live; a second stop() changes nothing; stop() leaves
\* the store alone.  Checked for stop() called in every reachable state, and
\* on the steps of session_shutdown, which calls it.
C13_StopClearsEverything ==
  [][/\ stop(Cur).jobs = NoEntries /\ stop(Cur).intervals = NoEntries
     /\ \A h \in Handles : ~stop(Cur).timers[h].live
     /\ stop(stop(Cur)) = stop(Cur)
     /\ stop(Cur).file = file
     /\ last'.op = "session_shutdown"
          => /\ jobs' = NoEntries /\ intervals' = NoEntries
             /\ \A h \in Handles : ~timers'[h].live
             /\ file' = autoCleanupDisabledJobs(Cur).file]_vars

\* a session was shut down while an enabled job that had been armed is stored
C13_Witness ==
  \E id \in JobIds :
    /\ last.op = "session_shutdown"
    /\ Stored(id) /\ StoredJob(id).enabled /\ g[id].arms >= 1
    /\ LiveTimers = {}

\* can the engine arm this job at time t
Armable(job, t) ==
  IF job.type = "interval" THEN job.intervalMs # 0
  ELSE IF job.type = "once" THEN DateParse(job.schedule) # -1 /\ DateParse(job.schedule) - t > 0
  ELSE CronAccepts(job.schedule)

\* when the timer of this job, armed at time t, is due
DueAt(job, t) ==
  IF job.type = "interval" THEN t + job.intervalMs
  ELSE IF job.type = "once" THEN DateParse(job.schedule)
  ELSE CronNextRun(t)

\* C14: after enable, disable or update of a stored job, the job has exactly
\* one live timer, built from the new state of the job and counted from now,
\* when the new state is enabled and can be armed, and no live timer
\* otherwise (so the timer armed from the old state is gone); an "update"
\* event is emitted either way.
C14_UpdateReplacesTimer ==
  [][\A id \in JobIds :
       (last'.op \in {"enable", "disable", "update"} /\ last'.err = "" /\ last'.id = id)
         => /\ HasEvent(events', "update", id)
            /\ IF last'.ret /\ Armable(getJob(file', id), now)
               THEN /\ Cardinality(LiveForNext(id)) = 1
                    /\ \A h \in LiveForNext(id) :
                         /\ timers'[h].job = Captured(getJob(file', id))
                         /\ timers'[h].due = DueAt(getJob(file', id), now)
                         /\ (jobs'[id] = h) # (intervals'[id] = h)
               ELSE /\ LiveForNext(id) = {}
                    /\ jobs'[id] = 0 /\ intervals'[id] = 0]_vars

\* an update gave a job that had a timer a new schedule and a new timer
C14_Witness ==
  /\ last.op = "update" /\ last.err = ""
  /\ g[last.id].resched /\ g[last.id].arms = 2
  /\ Cardinality(LiveFor(last.id)) = 1
  /\ \A h \in LiveFor(last.id) : timers[h].due = 3 * TickMs

\* C15: start() arms exactly the stored jobs with enabled = true: after a
\* session starts, each job that was enabled and can be armed has one live
\* timer built from it, and every other job has none.
C15_StartArmsEnabledJobs ==
  [][last'.op \in SessionOps =>
       \A id \in JobIds :
         IF Stored(id) /\ StoredJob(id).enabled /\ Armable(StoredJob(id), now)
         THEN /\ Cardinality(LiveForNext(id)) = 1
              /\ \A h \in LiveForNext(id) :
                   /\ timers'[h].job = Captured(StoredJob(id))
                   /\ timers'[h].due = DueAt(StoredJob(id), now)
         ELSE LiveForNext(id) = {}]_vars

\* a session started on a store with an enabled and a disabled job
C15_Witness ==
  /\ last.op = "session_start"
  /\ \E id \in JobIds : Stored(id) /\ StoredJob(id).enabled /\ LiveFor(id) # {}
  /\ \E id \in JobIds : Stored(id) /\ ~StoredJob(id).enabled /\ g[id].off /\ LiveFor(id) = {}

AllEnabled(f) == \A i \in 1..Len(getAllJobs(f)) : getAllJobs(f)[i].enabled

\* C20: when a session ends, every disabled job leaves the store, every
\* enabled job stays as it is, and no timer of the engine stays live.
\* Checked for the leaving side run in every state of an active session, and
\* on the steps of session_shutdown, session_switch and session_fork.
C20_SessionEndCleansUp ==
  [][/\ session = "active" =>
          LET L == cleanupSession(autoCleanupDisabledJobs(Cur))
          IN  /\ AllEnabled(L.file)
              /\ \A id \in JobIds :
                    (Stored(id) /\ StoredJob(id).enabled) => getJob(L.file, id) = StoredJob(id)
              /\ \A h \in Handles : ~L.timers[h].live
     /\ last'.op = "session_shutdown" =>
          /\ AllEnabled(file')
          /\ \A id \in JobIds :
                (Stored(id) /\ StoredJob(id).enabled) => getJob(file', id) = StoredJob(id)
          /\ \A h \in Handles : ~timers'[h].live
     /\ last'.op \in {"session_switch", "session_fork", "session_shutdown"} =>
          \A id \in JobIds :
            (Stored(id) /\ ~StoredJob(id).enabled) => ~storageHasId(file', id)]_vars

\* a session was shut down; of the two jobs created, the enabled one is left
C20_Witness ==
  /\ last.op = "session_shutdown"
  /\ nextId = 3 /\ Len(getAllJobs(file)) = 1
  /\ \E id \in JobIds : Stored(id) /\ StoredJob(id).enabled /\ g[id].arms >= 1
  /\ LiveTimers = {}

\* C19: a cleanup, by the tool or by the command, removes every job that is
\* stored with enabled = false and no other: each enabled job keeps its
\* record and its live timers.
C19_CleanupRemovesDisabledOnly ==
  [][(last'.op \in {"cleanup", "menu_cleanup"} /\ last'.err = "")
       => \A id \in JobIds :
            Stored(id) =>
              IF StoredJob(id).enabled
              THEN /\ getJob(file', id) = StoredJob(id)
                   /\ LiveForNext(id) = LiveFor(id)
              ELSE ~storageHasId(file', id)]_vars

\* C16: save writes the whole text to the temporary file and then renames
\* it over the canonical file, so at every step, with the process dying at
\* any point of a save, the canonical file either stays as it was or becomes
\* the complete text the save wrote; it never holds a cut-short text.
C16_SaveIsAtomic ==
  [][\/ file' = file
     \/ /\ temp.saving
        /\ temp.file.state \notin {"missing", "garbled"}
        /\ file' = temp.file
        /\ load(file') = load(temp.file)]_vars

\* the process died while a store with a job was being written: the canonical
\* file still holds the job, the temporary file holds the cut-short text
C16_Witness ==
  /\ last.op \in {"store_add", "store_update", "store_remove"} /\ last.err = "crash"
  /\ temp = [file |-> Garbled, saving |-> FALSE]
  /\ file.state = "ok" /\ Len(file.jobs) >= 1

\* C17: load() returns the persisted collection when the file holds one, and
\* the empty collection when the file is missing or its content is not a
\* store.
C17_LoadReturnsStoreOrEmpty ==
  IF file.state = "ok"
  THEN load(file) = [jobs |-> file.jobs, version |-> file.version]
  ELSE load(file) = [jobs |-> <<>>, version |-> StoreVersion]

C22_NamesAreUnique ==
  \A i, k \in 1..Len(getAllJobs(file)) :
    i # k => getAllJobs(file)[i].name # getAllJobs(file)[k].name

\* C23: getNextRun(id) is not null only for an id with a live watcher, which
\* is that of a stored, enabled Cron job; it is null for every Interval job,
\* every Once job, every disabled job and every id not stored.
C23_NextRunOnlyForWatchers ==
  \A id \in JobIds :
    /\ getNextRun(Cur, id, now) # <<>>
         => /\ jobs[id] \in LiveFor(id) /\ timers[jobs[id]].kind = "cron"
            /\ Stored(id) /\ StoredJob(id).enabled
            /\ StoredJob(id).type = "cron"
            /\ DateParse(getNextRun(Cur, id, now)) > now
    /\ (~Stored(id) \/ ~StoredJob(id).enabled \/ StoredJob(id).type \in {"interval", "once"})
         => getNextRun(Cur, id, now) = <<>>

\* a Cron job has fired and stored the next run it got, and an Interval or
\* Once job could not have
C23_Witness ==
  \E id \in JobIds :
    /\ last.op = "fire" /\ last.err = "" /\ last.id = id
    /\ Stored(id) /\ StoredJob(id).type = "cron"
    /\ StoredJob(id).nextRun = getNextRun(Cur, id, now)
    /\ StoredJob(id).nextRun # <<>>

\* C26: a job id is a key of at most one of the two maps of the engine, and
\* of either only while the job is stored with enabled = true.
C26_MapKeysAreEnabledJobs ==
  \A id \in JobIds :
    /\ ~(jobs[id] # 0 /\ intervals[id] # 0)
    /\ (jobs[id] # 0 \/ intervals[id] # 0) => (Stored(id) /\ StoredJob(id).enabled)

\* C30: every Once job a creation request stores has its instant strictly
\* after the instant of its creation, through the tool and the command.
C30_StoredOnceIsInTheFuture ==
  [][(/\ last'.op \in {"add", "menu_add"} /\ last'.err = ""
      /\ getJob(file', last'.id).type = "once")
       => DateParse(getJob(file', last'.id).schedule) > now]_vars

C28_OnceDisabledAfterExecution ==
  [][(last'.op = "fire" /\ Stored(last'.id) /\ StoredJob(last'.id).type = "once")
       => LET id  == last'.id
              ev  == events'
              n   == Len(ev)
              j   == getJob(file', id)
              end == IF last'.err = "" THEN "success" ELSE "error"
          IN  /\ n >= 3
              /\ ev[1].type = "fire" /\ ev[1].jobId = id /\ ev[1].seen = "running"
              /\ ev[n - 1].type = (IF last'.err = "" THEN "fire" ELSE "error")
              /\ ev[n - 1].jobId = id /\ ev[n - 1].seen = end
              /\ ev[n].type = "update" /\ ev[n].jobId = id /\ ~ev[n].enabled
              /\ ev[n].seen = end
              /\ \A i \in 1..(n - 1) : ev[i].type # "update"
              /\ ~j.enabled /\ j.lastStatus = end /\ j.lastRun = toISOString(now)
              /\ j.runCount = StoredJob(id).runCount + (IF last'.err = "" THEN 1 ELSE 0)]_vars

\* a Once job has fired, its execution failed, and it is stored disabled
\* with the status and the time of the failed run
C28_Witness ==
  /\ last.op = "fire" /\ last.err # ""
  /\ Stored(last.id) /\ StoredJob(last.id).type = "once"
  /\ ~StoredJob(last.id).enabled /\ StoredJob(last.id).lastStatus = "error"
  /\ StoredJob(last.id).lastRun = toISOString(now)
  /\ events[Len(events)].type = "update"

\* C29: when the engine tries to arm a stored Cron job and the watcher cannot
\* be built from its expression, the failure is caught: the handler goes on
\* (start() arms the jobs that follow), no key of either map and no live
\* timer exist for the job, an "error" event is emitted for it, and the job
\* is still stored with enabled = true.
C29_WatcherFailureIsCaught ==
  [][\A id \in JobIds :
       (/\ TriesToArm(id)
        /\ StoredJob(id).type = "cron"
        /\ ~CronAccepts(getJob(file', id).schedule))
         => /\ LiveForNext(id) = {}
            /\ jobs'[id] = 0 /\ intervals'[id] = 0
            /\ HasEvent(events', "error", id)
            /\ getJob(file', id).enabled
            /\ getJob(file', id).lastStatus = StoredJob(id).lastStatus
            /\ \A k \in JobIds \ {id} :
                  (last'.op \in SessionOps /\ Stored(k) /\ StoredJob(k).enabled)
                    => LiveForNext(k) # {}]_vars

\* start() has found an enabled Cron job with an expression Cron rejects,
\* followed by an Interval job, which it has armed
C29_Witness ==
  /\ last.op = "session_start"
  /\ Stored(1) /\ StoredJob(1).type = "cron" /\ StoredJob(1).enabled
  /\ ~CronAccepts(StoredJob(1).schedule)
  /\ HasEvent(events, "error", 1) /\ LiveFor(1) = {}
  /\ Stored(2) /\ LiveFor(2) # {}

\* the multipliers as the documentation gives them
UnitMs(u) ==
  CASE u = "s" -> 1000 [] u = "m" -> 60000 [] u = "h" -> 3600000 [] u = "d" -> 86400000

\* d is the decimal numeral of k, leading zeros included
IsNumeralOf(d, k) ==
  \A i \in 1..Len(d) : DigitVal(d[i]) = (k \div (10 ^ (Len(d) - i))) % 10

\* C24: parseInterval(str) is n * multiplier(unit) when str is one or more
\* decimal digits, which write n, followed by one of s, m, h, d, and null for
\* every other string.
C24_ParseIntervalIsDigitsThenUnit ==
  probe.fn = "parseInterval"
    => LET s == probe.arg
           n == Len(s)
           d == SubSeq(s, 1, n - 1)
       IN  IF /\ n >= 2 /\ s[n] \in {"s", "m", "h", "d"}
              /\ \A i \in 1..(n - 1) : s[i] \in Digits
           THEN \E k \in 0..(10 ^ (n - 1) - 1) :
                  IsNumeralOf(d, k) /\ probe.out = k * UnitMs(s[n])
           ELSE probe.out = -1

\* parseInterval was given "05m" and returned 300000
C24_Witness ==
  /\ probe.fn = "parseInterval"
  /\ probe.arg = <<"0", "5", "m">>
  /\ probe.out = 300000

\* the positions where a whitespace-separated field starts
FieldStarts(s) == {i \in 1..Len(s) : s[i] # " " /\ (i = 1 \/ s[i - 1] = " ")}

\* C25: validateCronExpression returns invalid for every expression whose
\* number of whitespace-separated fields is not 6, with an error that names
\* the number of fields (a blank expression splits into one empty field), and
\* returns valid only for expressions of exactly 6 fields.
C25_CronNeedsSixFields ==
  probe.fn = "validateCronExpression"
    => LET count == IF FieldStarts(probe.arg) = {} THEN 1
                    ELSE Cardinality(FieldStarts(probe.arg))
       IN  /\ count # 6 => (~probe.out.valid /\ probe.out.fields = count)
           /\ probe.out.valid => Cardinality(FieldStarts(probe.arg)) = 6

\* the 5-field form was refused with the count 5
C25_Witness ==
  /\ probe.fn = "validateCronExpression"
  /\ probe.arg = Cron5
  /\ ~probe.out.valid /\ probe.out.fields = 5

\* C31: each job id has at most one live timer or watcher, and every live
\* timer or watcher that executes a job is the one the maps of the engine
\* hold for the id of that job.
C31_NoDuplicateArming ==
  /\ \A id \in JobIds : Cardinality(LiveFor(id)) <= 1
  /\ \A h \in LiveTimers :
        jobs[timers[h].job.id] = h \/ intervals[timers[h].job.id] = h

\* C33: every job id with an entry in the maps of the engine is the id of a
\* job of the store.
C33_MapKeysAreStored ==
  \A id \in JobIds : (jobs[id] # 0 \/ intervals[id] # 0) => Stored(id)

\* a job was re-armed by an update and has one live timer, which the map holds
C31_Witness ==
  /\ last.op = "update" /\ last.err = ""
  /\ g[last.id].arms = 2
  /\ Cardinality(LiveFor(last.id)) = 1
  /\ \E h \in LiveFor(last.id) : intervals[last.id] = h \/ jobs[last.id] = h

\* C34: a job removed from the store is never in the store again: a step
\* puts into the store only the id that the creation it performs draws, ids
\* already drawn are not drawn again, and a timer that fires, or a toggle
\* that is chosen, for an id that is not in the store writes nothing.
C34_RemovedJobStaysRemoved ==
  [][/\ nextId' >= nextId
     /\ \A id \in JobIds :
          (~Stored(id) /\ storageHasId(file', id))
            => (id = nextId /\ nextId' = nextId + 1 /\ last'.op \in {"add", "menu_add"})
     /\ (last'.op \in {"fire", "menu_toggle"} /\ last'.id \in JobIds /\ ~Stored(last'.id))
          => file' = file]_vars

\* a timer has fired for the id of a removed job, while a job created later
\* under the same name is stored
C34_Witness ==
  /\ last.op = "fire" /\ last.id = 1
  /\ ~Stored(1) /\ Stored(2) /\ StoredJob(2).name = "a"

\* C32: a call of validateCronExpression, parseInterval or parseRelativeTime
\* leaves the store, the maps of the engine and the live timers and watchers
\* of the process as they were.
C32_ValidatorsChangeNothing ==
  [][probe' # probe
       => /\ file' = file /\ jobs' = jobs /\ intervals' = intervals
          /\ timers' = timers /\ orphans' = orphans]_vars

\* C35: an execution that wrote lastStatus = running for a stored job writes
\* success or error for it before it ends, so that after every step no job
\* of the store has lastStatus = running.
C35_RunningIsTransient ==
  [][/\ \A id \in JobIds :
          storageHasId(file', id) => getJob(file', id).lastStatus # "running"
     /\ (last'.op = "fire" /\ Stored(last'.id))
          => /\ events'[1].type = "fire" /\ events'[1].seen = "running"
             /\ getJob(file', last'.id).lastStatus
                  = (IF last'.err = "" THEN "success" ELSE "error")]_vars

\* the prompt of a Cron job could not be sent: the job was seen running and
\* is stored with lastStatus = error
C35_Witness ==
  /\ last.op = "fire" /\ last.err = "sendUserMessage"
  /\ Stored(last.id) /\ StoredJob(last.id).type = "cron"
  /\ events[1].seen = "running"
  /\ StoredJob(last.id).lastStatus = "error"

\* the save of this write of the store has just been renamed into place
Saved(op) == temp.saving /\ last.op = op /\ last'.ret

\* C36: updateJob(id, partial) and removeJob(id) of the store change only
\* the record with that id: the other records and the order of the records
\* that remain are as before, the fields the partial does not name keep their
\* values, and for an id that is not in the store the file is as before and
\* false is returned.
C36_StoreWritesTouchOneRecord ==
  [][LET old == load(file).jobs
         new == load(file').jobs
         id  == last.id
     IN  /\ Saved("store_update")
              => /\ Len(new) = Len(old)
                 /\ \A i \in 1..Len(old) :
                      /\ old[i].id # id => new[i] = old[i]
                      /\ old[i].id = id
                           => /\ new[i].enabled = ~old[i].enabled
                              /\ \A f \in DOMAIN old[i] \ {"enabled"} : new[i][f] = old[i][f]
         /\ Saved("store_remove")
              => /\ Len(new) = Len(old) - 1
                 /\ \A i \in 1..Len(new) : new[i].id # id
                 /\ \A i, k \in 1..Len(old) :
                      (i < k /\ old[i].id # id /\ old[k].id # id)
                        => \E a, b \in 1..Len(new) :
                             a < b /\ new[a] = old[i] /\ new[b] = old[k]
                 /\ \A i \in 1..Len(old) :
                      old[i].id # id => \E a \in 1..Len(new) : new[a] = old[i]
         /\ "jobs" \in DOMAIN load(file)
              => \A k \in JobIds :
                   ~storageHasId(file, k)
                     => /\ storageUpdateJob(file, k, DisablePartial) = file
                        /\ storageRemoveJob(file, k) = file
                        /\ ~storageRemoved(file, k)]_vars

\* the first of two records was updated and the save is in place
C36_Witness ==
  /\ last.op = "store_update" /\ last.ret /\ ~temp.saving
  /\ file.state = "ok" /\ Len(file.jobs) = 2
  /\ file.jobs[1].id = last.id
  /\ file.jobs[2] \in SampleJobs

\* C37: after session_switch and session_fork no timer of the engine that
\* was dropped is live: every live timer is held by the maps of the new
\* engine, was armed by its start() from the record now in the store, and is
\* the only live timer of its job, so no job fires twice for one due instant.
C37_SwitchLeavesOneEngine ==
  [][last'.op \in {"session_switch", "session_fork"}
       => /\ \A id \in JobIds : Cardinality(LiveForNext(id)) <= 1
          /\ \A h \in Handles :
                timers'[h].live
                  => LET id == timers'[h].job.id
                     IN  /\ jobs'[id] = h \/ intervals'[id] = h
                         /\ storageHasId(file', id) /\ getJob(file', id).enabled
                         /\ timers'[h].job = Captured(getJob(file', id))
                         /\ timers'[h].due > now]_vars

\* an Interval job that ran under the engine that was dropped has one live
\* timer after the switch, armed from the stored record
C37_Witness ==
  /\ last.op = "session_switch"
  /\ \E id \in JobIds :
        /\ Stored(id) /\ StoredJob(id).type = "interval" /\ g[id].ok >= 1
        /\ \E h \in LiveFor(id) :
              timers[h].job.runCount = StoredJob(id).runCount /\ intervals[id] = h

\* C38: when enable, disable or update of the tool returns without error,
\* the enabled flag of the job it returns is the one of the job in the store,
\* and the job has a live timer exactly when the flag is true and the job can
\* be armed.
C38_ReturnedFlagIsStoredFlag ==
  [][(last'.op \in {"enable", "disable", "update"} /\ last'.err = "")
       => /\ last'.ret = getJob(file', last'.id).enabled
          /\ (LiveForNext(last'.id) # {})
               <=> (last'.ret /\ Armable(getJob(file', last'.id), now))]_vars

====
